---- MODULE Spec2Model ----
(***************************************************************************)
(* csvpp: an in-memory CSV table (Field, Row, Csv) with a writer           *)
(* (Csv::SaveToFile, Field::GetValueEscaped) and a parser                  *)
(* (CsvParser::Parse, CsvParser::SanitizeCellValue).                       *)
(*                                                                         *)
(* A std::string is a sequence of characters, a Row a sequence of field    *)
(* values, a Csv a record of its data members.  Every call returns an      *)
(* outcome [exc, value]: exc = "none" for a normal return, otherwise the   *)
(* exception that left the call.  Where the C++ has undefined behaviour    *)
(* the operator yields the set of outcomes observed or possible on the     *)
(* usual builds and the action picks one of them.                          *)
(***************************************************************************)
EXTENDS Integers, Sequences, FiniteSets, TLC

VARIABLES
    csv,        \* the Csv object under test
    appended,   \* history: [kind, row] of every successful append to csv, in call order
    file,       \* the content of the file SaveToFile wrote, or NoFile
    saved,      \* history: csv as it was when file was written
    ret         \* the most recent call: [op, arg, exc, value]

vars == <<csv, appended, file, saved, ret>>

----------------------------------------------------------------------------
(* Bounds of the model                                                     *)

\* Spec: rows in the table, fields in a row, the largest index passed
MaxRows == 3
MaxWidth == 2
MaxIndex == 5
\* SpecRow: fields in a row
MaxRowWidth == 3
\* SpecIndex: rows in the table
MaxIndexedRows == 2
\* SpecCodec: characters in a value
MaxValueLen == 3
\* SpecFile: rows in the table, fields in a row, characters in the table
MaxFileRows == 2
MaxFileWidth == 2
MaxTableChars == 3
\* SpecParse: the bytes of a file
MaxFileLen == 5
\* SpecParse: the size of the byte buffer
MaxBufferSize == 3

----------------------------------------------------------------------------
(* Characters and strings                                                  *)

quote_char == "\""

LF == "\n"

\* char separator_ = ',' and the default of Parse's separator parameter
DefaultSeparator == ","

\* the characters text is drawn from: the three the codec treats specially
\* and an ordinary one
Alphabet == {quote_char, DefaultSeparator, LF, "a"}

\* a second separator, as passed to Csv(const char separator)
Separators == {DefaultSeparator, ";"}

\* size_t arithmetic wraps; every width, count and index of the model is far
\* below the modulus, so only the wrap of (0 - 1) and of negative ints shows
SizeModulus == 2 ^ 16

ToSizeT(i) == i % SizeModulus

Min(a, b) == IF a < b THEN a ELSE b

\* std::string::find(c) != npos
Contains(s, c) == \E i \in 1..Len(s) : s[i] = c

\* std::string::insert(pos, 1, c), pos counted from 0
InsertAt(s, pos, c) == SubSeq(s, 1, pos) \o <<c>> \o SubSeq(s, pos + 1, Len(s))

\* s[0] == c: operator[] at size() yields '\0', so an empty string matches nothing
FirstIs(s, c) == Len(s) > 0 /\ s[1] = c

\* s[s.size() - 1] == c, evaluated by the code on non-empty strings only
LastIs(s, c) == Len(s) > 0 /\ s[Len(s)] = c

RECURSIVE StringsOfLen(_, _)
StringsOfLen(chars, n) ==
    IF n = 0 THEN {<<>>}
    ELSE {<<c>> \o s : c \in chars, s \in StringsOfLen(chars, n - 1)}

RECURSIVE StringsUpTo(_, _)
StringsUpTo(chars, n) ==
    IF n = 0 THEN {<<>>} ELSE StringsOfLen(chars, n) \cup StringsUpTo(chars, n - 1)

----------------------------------------------------------------------------
(* Field                                                                   *)

\* the condition of the first if of GetValueEscaped
NeedsQuotes(value, separator) ==
    /\ Contains(value, separator) \/ Contains(value, LF)
    /\ value[1] # quote_char
    /\ value[Len(value)] # quote_char

\* escaped_value before the doubling loop
Wrapped(value, separator) ==
    IF NeedsQuotes(value, separator) THEN <<quote_char>> \o value \o <<quote_char>>
    ELSE value

\* the for loop over escaped_value; it is the position of the iterator,
\* counted from 1, and s the string as the inserts have left it
RECURSIVE EscapeLoop(_, _)
EscapeLoop(s, it) ==
    IF it > Len(s) THEN s
    ELSE IF it = 1 \/ it = Len(s) THEN EscapeLoop(s, it + 1)
    ELSE IF s[it] = quote_char THEN EscapeLoop(InsertAt(s, it - 1, quote_char), it + 2)
    ELSE EscapeLoop(s, it + 1)

\* GetValueEscaped on a build where no insert moves the buffer
GetValueEscaped(value, separator) == EscapeLoop(Wrapped(value, separator), 1)

\* the number of inserts the loop makes
InteriorQuotes(s) == Cardinality({i \in 2..(Len(s) - 1) : s[i] = quote_char})

\* capacity of a std::string's small buffer (libstdc++, MSVC; libc++ has 22)
LocalCapacity == 15

\* capacity of escaped_value when the loop starts (libstdc++): the small
\* buffer when the text fits; else exactly the size for the copy of value_,
\* and the doubled capacity of the operator+ temporary for the wrapped text
Capacity(value, separator) ==
    LET m == Len(Wrapped(value, separator))
    IN  IF m <= LocalCapacity THEN LocalCapacity
        ELSE IF NeedsQuotes(value, separator) THEN 2 * (m - 1)
        ELSE m

\* an insert grows the string past its capacity: the buffer is reallocated
\* and the loop goes on with an iterator into the freed buffer
StaleIterator(value, separator) ==
    LET w == Wrapped(value, separator)
    IN  /\ InteriorQuotes(w) > 0
        /\ Len(w) + InteriorQuotes(w) > Capacity(value, separator)

\* position (from 1) of the first quote the loop doubles
FirstInteriorQuote(s) == CHOOSE i \in 2..(Len(s) - 1) :
                            /\ s[i] = quote_char
                            /\ \A j \in 2..(i - 1) : s[j] # quote_char

\* what the loop does once its iterator is stale, by build: "in_place" goes
\* on as intended (a larger small buffer, as libc++'s 22), "throws" ends in
\* std::out_of_range from insert (the stale distance exceeds size()),
\* "rescans" walks from the freed buffer into the new one and scans the
\* text again after the first insert (both seen with libstdc++)
Builds == {"in_place", "throws", "rescans"}

GetValueEscapedOn(build, value, separator) ==
    LET w == Wrapped(value, separator)
    IN  IF ~StaleIterator(value, separator) \/ build = "in_place"
        THEN [exc |-> "none", value |-> GetValueEscaped(value, separator)]
        ELSE IF build = "throws"
        THEN [exc |-> "std::out_of_range", value |-> <<>>]
        ELSE [exc |-> "none",
              value |-> EscapeLoop(InsertAt(w, FirstInteriorQuote(w) - 1, quote_char), 1)]

\* the outcomes of GetValueEscaped
GetValueEscapedOutcomes(value, separator) ==
    {GetValueEscapedOn(build, value, separator) : build \in Builds}

----------------------------------------------------------------------------
(* Outcomes of a call                                                      *)

Return(v) == [exc |-> "none", value |-> v]

Throw(e, v) == [exc |-> e, value |-> v]

----------------------------------------------------------------------------
(* CsvParser::SanitizeCellValue                                            *)

\* value.substr(1, value.size() - 2) when value starts and ends with a quote
\* (a single quote is both: substr(1, npos) of it is empty)
StripQuotes(value) ==
    IF FirstIs(value, quote_char) /\ LastIs(value, quote_char)
    THEN SubSeq(value, 2, Len(value) - 1)
    ELSE value

\* the while loop: find("\"\"", pos), replace(pos, 2, "\""), ++pos; pos from 0
RECURSIVE ReplaceDoubleQuotes(_, _)
ReplaceDoubleQuotes(s, pos) ==
    LET found == {i \in (pos + 1)..(Len(s) - 1) : s[i] = quote_char /\ s[i + 1] = quote_char}
    IN  IF found = {} THEN s
        ELSE LET i == CHOOSE k \in found : \A j \in found : k <= j
             IN  ReplaceDoubleQuotes(SubSeq(s, 1, i) \o SubSeq(s, i + 2, Len(s)), i)

\* SanitizeCellValue without the replacement of doubled quotes
SanitizeCellValue_StripOnly(value) == StripQuotes(value)

SanitizeCellValue(value) == ReplaceDoubleQuotes(StripQuotes(value), 0)

----------------------------------------------------------------------------
(* Row: the sequence of its fields' values                                 *)

Width(row) == Len(row)

AddValue(row, field) == Append(row, field)

Clear(row) == <<>>

\* fields_[index] past the end of the vector: a crash or whatever the memory holds
GarbageValues == {<<>>, <<"a">>}

\* Row::ValueAt (and the same test in Row::operator[])
ValueAt(row, index) ==
    IF ToSizeT(index) > ToSizeT(Width(row) - 1)
    THEN {Throw("OutOfBoundFieldAccessException", <<>>)}
    ELSE IF ToSizeT(index) < Width(row)
    THEN {Return(row[ToSizeT(index) + 1])}
    ELSE {Throw("SIGSEGV", <<>>)} \cup {Return(g) : g \in GarbageValues}

----------------------------------------------------------------------------
(* Csv: the record of its data members                                     *)

\* Csv() and Csv(const char separator)
NewCsv(separator) ==
    [has_header_row_ |-> FALSE, is_width_initialized |-> FALSE,
     separator_ |-> separator, allowed_width_ |-> 0, rows_ |-> <<>>]

Empty(c) == c.rows_ = <<>>

RowCount(c) == Len(c.rows_)

AllowedWidth(c) == c.allowed_width_

IsWidthInitialized(c) == c.is_width_initialized

SetHasHeaderRow(c) == [c EXCEPT !.has_header_row_ = TRUE]

\* InitializeWidth that takes a width of 0 for no width at all
InitializeWidth_NonZero(c, width) ==
    IF ~IsWidthInitialized(c) /\ width > 0
    THEN [c EXCEPT !.allowed_width_ = width, !.is_width_initialized = TRUE]
    ELSE c

\* InitializeWidth that never sets the width
InitializeWidth_Never(c, width) == c

InitializeWidth(c, width) ==
    IF ~IsWidthInitialized(c)
    THEN [c EXCEPT !.allowed_width_ = width, !.is_width_initialized = TRUE]
    ELSE c

\* PushRow that stores the caller's Row itself, which the caller clears
PushRow_Alias(c, row) == [c EXCEPT !.rows_ = Append(@, Clear(row))]

\* PushRow that keeps one entry of equal rows
PushRow_Dedup(c, row) ==
    IF \E i \in DOMAIN c.rows_ : c.rows_[i] = row THEN c
    ELSE [c EXCEPT !.rows_ = Append(@, row)]

PushRow(c, row) == [c EXCEPT !.rows_ = Append(@, row)]

\* AddDataRow that rejects only a row wider than the allowed width
AddDataRow_WiderOnly(c, row) ==
    IF IsWidthInitialized(c) /\ AllowedWidth(c) < Width(row)
    THEN Throw("InvalidRowWidthException", c)
    ELSE Return(PushRow(InitializeWidth(c, Width(row)), row))

\* AddDataRow that stores the row before it checks the width
AddDataRow_PushFirst(c, row) ==
    IF IsWidthInitialized(c) /\ AllowedWidth(c) # Width(row)
    THEN Throw("InvalidRowWidthException", PushRow(c, row))
    ELSE Return(PushRow(InitializeWidth(c, Width(row)), row))

\* AddHeaderRow that rejects only a second header
AddHeaderRow_AfterData(c, row) ==
    IF c.has_header_row_
    THEN Throw("InvalidHeaderRowInsertionException", c)
    ELSE Return(SetHasHeaderRow(PushRow(InitializeWidth(c, Width(row)), row)))

\* the outcome's value is the Csv as the call leaves it
AddDataRow(c, row) ==
    IF IsWidthInitialized(c) /\ AllowedWidth(c) # Width(row)
    THEN Throw("InvalidRowWidthException", c)
    ELSE Return(PushRow(InitializeWidth(c, Width(row)), row))

AddHeaderRow(c, row) ==
    IF ~Empty(c)
    THEN Throw("InvalidHeaderRowInsertionException", c)
    ELSE Return(SetHasHeaderRow(PushRow(InitializeWidth(c, Width(row)), row)))

\* rows_[index] past the end of the vector: a crash or whatever the memory holds
GarbageRows == {<<>>, <<<<"a">>>>}

RowAt(c, index) ==
    IF Empty(c)
    THEN {Throw("EmptyCsvRowAccessException", <<>>)}
    ELSE IF ToSizeT(RowCount(c) + 1) < ToSizeT(index)
    THEN {Throw("OutOfBoundRowAccessException", <<>>)}
    ELSE IF ToSizeT(index) < RowCount(c)
    THEN {Return(c.rows_[ToSizeT(index) + 1])}
    ELSE {Throw("SIGSEGV", <<>>)} \cup {Return(g) : g \in GarbageRows}

DataRowAt(c, index) ==
    LET first_data_index == IF c.has_header_row_ THEN index + 1 ELSE index
    IN  RowAt(c, first_data_index)

\* GetHeaderRow that returns the first row, header or not
GetHeaderRow_FirstRow(c) ==
    IF Empty(c) THEN Throw("EmptyCsvRowAccessException", <<>>)
    ELSE Return(c.rows_[1])

GetHeaderRow(c) ==
    IF Empty(c) THEN Throw("EmptyCsvRowAccessException", <<>>)
    ELSE IF c.has_header_row_ THEN Return(c.rows_[1])
    ELSE Return(<<>>)

\* the loop of ForEachRow / ForEachDataRow from iterator position it on: the
\* rows handed to the callback, each a copy, in the order of the calls
RECURSIVE VisitFrom(_, _)
VisitFrom(c, it) ==
    IF it > RowCount(c) THEN <<>>
    ELSE <<c.rows_[it]>> \o VisitFrom(c, it + 1)

ForEachRow(c) == Return(VisitFrom(c, 1))

\* ForEachDataRow that starts at the first row, header or not
ForEachDataRow_All(c) == Return(VisitFrom(c, 1))

ForEachDataRow(c) ==
    LET start_pos == IF c.has_header_row_ THEN 2 ELSE 1
    IN  Return(VisitFrom(c, start_pos))

\* Row &Csv::operator[]: the position in rows_ of the row referred to, or
\* the exception
IndexOperator(c, index) ==
    IF ToSizeT(index) > ToSizeT(RowCount(c) - 1)
    THEN Throw("OutOfBoundRowAccessException", 0)
    ELSE IF ToSizeT(index) >= RowCount(c)
    THEN Throw("std::out_of_range", 0)
    ELSE Return(ToSizeT(index) + 1)

----------------------------------------------------------------------------
(* Csv::SaveToFile                                                         *)

NoFile == <<"no file">>

\* the two for loops: row and field are the positions of the iterators, out
\* the bytes streamed so far; an exception from GetValueEscaped leaves the
\* call and the stream's destructor closes the file with what was written
RECURSIVE WriteRows(_, _, _, _, _)
WriteRows(build, c, row, field, out) ==
    IF row > RowCount(c) THEN Return(out)
    ELSE IF field > Width(c.rows_[row])
    THEN WriteRows(build, c, row + 1, 1, out \o <<LF>>)
    ELSE LET escaped == GetValueEscapedOn(build, c.rows_[row][field], c.separator_)
         IN  IF escaped.exc # "none" THEN Throw(escaped.exc, out)
             ELSE WriteRows(build, c, row, field + 1,
                            out \o escaped.value \o
                            (IF field < Width(c.rows_[row]) THEN <<c.separator_>> ELSE <<>>))

\* the outcome's value is the content of the file
SaveToFile(build, c) == WriteRows(build, c, 1, 1, <<>>)

\* SaveToFile to a path that may not open: the loops run all the same, on a
\* stream whose failbit is set, and no byte reaches a file
SaveToFileTo(build, c, is_open) ==
    LET out == SaveToFile(build, c)
    IN  IF is_open THEN out ELSE [exc |-> out.exc, value |-> NoFile]

----------------------------------------------------------------------------
(* CsvParser::Parse                                                        *)

byte_buffer_size == 64 * 1014

\* Parse that starts inside quotes
ParseStart_Quoted ==
    [is_quoted |-> TRUE, field_value |-> <<>>, csv |-> NewCsv(DefaultSeparator),
     row |-> <<>>, exc |-> "none"]

\* the locals of Parse: is_quoted, field_value, csv, row; exc is the
\* exception that has left AddHeaderRow / AddDataRow, if any
ParseStart ==
    [is_quoted |-> FALSE, field_value |-> <<>>, csv |-> NewCsv(DefaultSeparator),
     row |-> <<>>, exc |-> "none"]

\* CsvParser::Parse that commits every row through AddDataRow
CommitRow_DataOnly(c, row, has_header_row) == AddDataRow(c, row)

\* the row of a finished line is committed: as the header when the table is
\* empty and a header is asked for, else as a data row
CommitRow(c, row, has_header_row) ==
    IF Empty(c) /\ has_header_row
    THEN AddHeaderRow(c, row)
    ELSE AddDataRow(c, row)

\* a quote that toggles whatever the field buffer holds
TogglesQuoted_Always(field_value) == TRUE

\* the condition under which a quote byte toggles is_quoted
TogglesQuoted(field_value) == field_value = <<>> \/ FirstIs(field_value, quote_char)

\* a parser for which no separator or line feed is inside quotes
InsideQuotes_Never(p) == FALSE

\* if (is_quoted) of the separator and of the line-feed branch
InsideQuotes(p) == p.is_quoted

\* the body of the for loop for one byte
ParseByte(p, byte, separator, has_header_row) ==
    IF byte = quote_char
    THEN [p EXCEPT !.is_quoted = IF TogglesQuoted(p.field_value)
                                 THEN ~p.is_quoted ELSE p.is_quoted,
                   !.field_value = Append(@, byte)]
    ELSE IF byte = separator
    THEN IF InsideQuotes(p)
         THEN [p EXCEPT !.field_value = Append(@, byte)]
         ELSE [p EXCEPT !.is_quoted = FALSE,
                        !.row = AddValue(@, SanitizeCellValue(p.field_value)),
                        !.field_value = <<>>]
    ELSE IF byte = LF
    THEN IF InsideQuotes(p)
         THEN [p EXCEPT !.field_value = Append(@, byte)]
         ELSE LET row == AddValue(p.row, SanitizeCellValue(p.field_value))
                  added == CommitRow(p.csv, row, has_header_row)
              IN  IF added.exc # "none"
                  THEN [p EXCEPT !.is_quoted = FALSE, !.row = row, !.exc = added.exc]
                  ELSE [p EXCEPT !.is_quoted = FALSE, !.csv = added.value,
                                 !.row = Clear(row), !.field_value = <<>>]
    ELSE [p EXCEPT !.field_value = Append(@, byte)]

\* the for loop over one chunk of bytes_to_read bytes
RECURSIVE ParseChunk(_, _, _, _, _)
ParseChunk(p, byte_buffer, i, separator, has_header_row) ==
    IF i > Len(byte_buffer) \/ p.exc # "none" THEN p
    ELSE ParseChunk(ParseByte(p, byte_buffer[i], separator, has_header_row),
                    byte_buffer, i + 1, separator, has_header_row)

\* a while loop that starts every chunk outside quotes with an empty field
RECURSIVE ParseLoopWith_Reset(_, _, _, _, _)
ParseLoopWith_Reset(size, p, stream, separator, has_header_row) ==
    LET file_length == Len(stream)
        bytes_to_read == Min(file_length, size)
        fresh == [p EXCEPT !.is_quoted = FALSE, !.field_value = <<>>]
    IN  IF ~(file_length > 0) \/ p.exc # "none" THEN p
        ELSE ParseLoopWith_Reset(size,
                                 ParseChunk(fresh, SubSeq(stream, 1, bytes_to_read), 1,
                                            separator, has_header_row),
                                 SubSeq(stream, bytes_to_read + 1, file_length),
                                 separator, has_header_row)

\* the while loop for a buffer of size bytes: stream is what is left to
\* read, file_length its length
RECURSIVE ParseLoopWith(_, _, _, _, _)
ParseLoopWith(size, p, stream, separator, has_header_row) ==
    LET file_length == Len(stream)
        bytes_to_read == Min(file_length, size)
    IN  IF ~(file_length > 0) \/ p.exc # "none" THEN p
        ELSE ParseLoopWith(size,
                           ParseChunk(p, SubSeq(stream, 1, bytes_to_read), 1,
                                      separator, has_header_row),
                           SubSeq(stream, bytes_to_read + 1, file_length),
                           separator, has_header_row)

\* the while loop with the buffer of byte_buffer_size bytes
ParseLoop(p, stream, separator, has_header_row) ==
    ParseLoopWith(byte_buffer_size, p, stream, separator, has_header_row)

\* Parse built with a buffer of size bytes
ParseWith(size, content, separator, has_header_row) ==
    LET p == IF content = NoFile THEN ParseStart
             ELSE ParseLoopWith(size, ParseStart, content, separator, has_header_row)
    IN  [exc |-> p.exc, value |-> p.csv]

\* Parse that commits what is pending at the end of the input
Parse_Flush(content, separator, has_header_row) ==
    LET p == IF content = NoFile THEN ParseStart
             ELSE ParseLoop(ParseStart, content, separator, has_header_row)
        added == CommitRow(p.csv, AddValue(p.row, SanitizeCellValue(p.field_value)),
                           has_header_row)
    IN  IF p.exc # "none" \/ p.field_value = <<>>
        THEN [exc |-> p.exc, value |-> p.csv]
        ELSE [exc |-> added.exc, value |-> added.value]

\* a file that cannot be opened: tellg() is -1 and the loop is not entered
Parse(content, separator, has_header_row) ==
    LET p == IF content = NoFile THEN ParseStart
             ELSE ParseLoop(ParseStart, content, separator, has_header_row)
    IN  [exc |-> p.exc, value |-> p.csv]

----------------------------------------------------------------------------
(* Inputs                                                                  *)

InputFields == {<<"a">>, <<"b">>}

RECURSIVE RowsOfWidth(_, _)
RowsOfWidth(fields, w) ==
    IF w = 0 THEN {<<>>}
    ELSE {AddValue(row, field) : row \in RowsOfWidth(fields, w - 1), field \in fields}

\* Row({field, ..., field}) of w fields
RECURSIVE FilledRow(_, _)
FilledRow(field, w) == IF w = 0 THEN <<>> ELSE AddValue(FilledRow(field, w - 1), field)

InputRows == {FilledRow(field, w) : field \in InputFields, w \in 0..MaxWidth}

Indices == (-1)..MaxIndex

RECURSIVE RowChars(_)
RowChars(row) == IF row = <<>> THEN 0 ELSE Len(row[1]) + RowChars(Tail(row))

RECURSIVE TableChars(_)
TableChars(rows) == IF rows = <<>> THEN 0 ELSE RowChars(rows[1]) + TableChars(Tail(rows))

\* csvpp.test.cpp, TEST(Field, GetValueEscapedLineQuote)
QuoteValue ==
    <<"t", "h", "i", "s", quote_char, "v", "a", "l", "u", "e", quote_char,
      "i", "s", "q", "u", "o", "t", "e", "d">>

\* csvpp.test.cpp, TEST(Field, GetValueEscapedQuotedQuote)
QuotedQuoteValue ==
    <<quote_char, "t", "h", "i", "s", quote_char, "v", "a", "l", "u", "e", quote_char,
      "i", "s", "q", "u", "o", "t", "e", "d", quote_char>>

\* csvpp.test.cpp, the rows of the CsvParserTest fixture
FixtureRows ==
    << <<<<"h", "e", "a", "d", "e", "r", "1">>,
         <<"h", "e", "a", "d", "e", "r", "2">>,
         <<"h", "e", "a", "d", "e", "r", "3">>>>,
       <<<<"v", "a", "l", "u", "e", "1">>,
         <<"v", "a", "l", "u", "e", "2">>,
         <<"v", "a", "l", "u", "e", "3">>>>,
       <<<<"w", "i", "t", "h", LF, "l", "i", "n", "e", "b", "r", "e", "a", "k">>,
         <<"w", "i", "t", "h", quote_char, "q", "u", "o", "t", "e">>,
         <<quote_char, "q", "u", "o", "t", "e", "d", quote_char>>>>,
       <<<<"s", "e", "p", "a", DefaultSeparator, "r", "a", "t", "e", "d">>,
         <<"e", "n", "d", "q", "u", "o", "t", "e", quote_char>>,
         <<quote_char, "s", "t", "a", "r", "t", "q", "u", "o", "t", "e">>>> >>

\* the rows of w fields over the alphabet with at most chars characters
RECURSIVE RowsWithin(_, _)
RowsWithin(w, chars) ==
    IF chars < 0 THEN {}
    ELSE IF w = 0 THEN {<<>>}
    ELSE UNION {{<<value>> \o row : row \in RowsWithin(w - 1, chars - Len(value))} :
                    value \in StringsUpTo(Alphabet, chars)}

\* the rows that still fit the table, and the row holding the Field test's value
FileRows(c) ==
    UNION {RowsWithin(w, MaxTableChars - TableChars(c.rows_)) : w \in 0..MaxFileWidth}

TestRows == {<<QuoteValue>>}

----------------------------------------------------------------------------
(* The calls                                                               *)

NoCall == [op |-> "none", arg |-> 0, exc |-> "none", value |-> 0]

Call(op, arg, out) == [op |-> op, arg |-> arg, exc |-> out.exc, value |-> out.value]

\* an append: out is the outcome of AddHeaderRow / AddDataRow on csv
Appends(op, kind, row, out) ==
    /\ csv' = out.value
    /\ appended' = IF out.exc = "none"
                   THEN Append(appended, [kind |-> kind, row |-> row])
                   ELSE appended
    /\ ret' = [op |-> op, arg |-> Width(row), exc |-> out.exc, value |-> 0]
    /\ UNCHANGED <<file, saved>>

AddDataRowCall(row) == Appends("AddDataRow", "data", row, AddDataRow(csv, row))

AddHeaderRowCall(row) == Appends("AddHeaderRow", "header", row, AddHeaderRow(csv, row))

\* a call that reads the table
Reads(op, arg, out) ==
    /\ ret' = Call(op, arg, out)
    /\ UNCHANGED <<csv, appended, file, saved>>

RowAtCall(index) == \E out \in RowAt(csv, index) : Reads("RowAt", index, out)

DataRowAtCall(index) == \E out \in DataRowAt(csv, index) : Reads("DataRowAt", index, out)

GetHeaderRowCall == Reads("GetHeaderRow", 0, GetHeaderRow(csv))

ForEachRowCall == Reads("ForEachRow", 0, ForEachRow(csv))

ForEachDataRowCall == Reads("ForEachDataRow", 0, ForEachDataRow(csv))

\* Row::ValueAt on a row of its own
ValueAtCall(row, index) ==
    \E out \in ValueAt(row, index) : Reads("ValueAt", [row |-> row, index |-> index], out)

\* csv[index].AddValue(field)
IndexAddValueCall(index, field) ==
    LET at == IndexOperator(csv, index)
    IN  /\ csv' = IF at.exc = "none"
                  THEN [csv EXCEPT !.rows_[at.value] = AddValue(@, field)]
                  ELSE csv
        /\ ret' = [op |-> "operator[].AddValue", arg |-> index, exc |-> at.exc, value |-> 0]
        /\ UNCHANGED <<appended, file, saved>>

\* csv[index].Clear()
IndexClearCall(index) ==
    LET at == IndexOperator(csv, index)
    IN  /\ csv' = IF at.exc = "none"
                  THEN [csv EXCEPT !.rows_[at.value] = Clear(@)]
                  ELSE csv
        /\ ret' = [op |-> "operator[].Clear", arg |-> index, exc |-> at.exc, value |-> 0]
        /\ UNCHANGED <<appended, file, saved>>

SaveToFileCall(build) ==
    LET out == SaveToFile(build, csv)
    IN  /\ file' = out.value
        /\ saved' = csv
        /\ ret' = [op |-> "SaveToFile", arg |-> 0, exc |-> out.exc, value |-> 0]
        /\ UNCHANGED <<csv, appended>>

\* SaveToFile(file_path), the path one that opens or not
SaveToFileToCall(build, is_open) ==
    LET out == SaveToFileTo(build, csv, is_open)
    IN  /\ file' = out.value
        /\ saved' = csv
        /\ ret' = [op |-> "SaveToFile", arg |-> is_open, exc |-> out.exc, value |-> 0]
        /\ UNCHANGED <<csv, appended>>

ParseCall(separator, has_header_row) ==
    /\ ret' = Call("Parse", [separator |-> separator, has_header_row |-> has_header_row],
                   Parse(file, separator, has_header_row))
    /\ UNCHANGED <<csv, appended, file, saved>>

----------------------------------------------------------------------------
(* Spec: the table and its rows                                            *)

Init ==
    /\ csv = NewCsv(DefaultSeparator)
    /\ appended = <<>>
    /\ file = NoFile
    /\ saved = NewCsv(DefaultSeparator)
    /\ ret = NoCall

TableAddDataRow ==
    \E row \in InputRows :
        /\ RowCount(AddDataRow(csv, row).value) <= MaxRows
        /\ AddDataRowCall(row)

TableAddHeaderRow ==
    \E row \in InputRows :
        /\ RowCount(AddHeaderRow(csv, row).value) <= MaxRows
        /\ AddHeaderRowCall(row)

TableRowAt == \E index \in Indices : RowAtCall(index)

TableDataRowAt == \E index \in Indices : DataRowAtCall(index)

TableGetHeaderRow == GetHeaderRowCall

TableForEachRow == ForEachRowCall

TableForEachDataRow == ForEachDataRowCall

Next ==
    \/ TableAddDataRow
    \/ TableAddHeaderRow
    \/ TableRowAt
    \/ TableDataRowAt
    \/ TableGetHeaderRow
    \/ TableForEachRow
    \/ TableForEachDataRow

Spec == Init /\ [][Next]_vars

----------------------------------------------------------------------------
(* SpecRow: a Row of its own                                               *)

RowInputs == UNION {RowsOfWidth(InputFields, w) : w \in 0..MaxRowWidth}

\* Row row(values)
InitRow ==
    /\ csv = NewCsv(DefaultSeparator)
    /\ appended = <<>>
    /\ file = NoFile
    /\ saved = NewCsv(DefaultSeparator)
    /\ \E row \in RowInputs :
          ret = [op |-> "Row", arg |-> [row |-> row, index |-> 0], exc |-> "none",
                 value |-> <<>>]

RowValueAt == \E index \in Indices : ValueAtCall(ret.arg.row, index)

NextRow == RowValueAt

SpecRow == InitRow /\ [][NextRow]_vars

----------------------------------------------------------------------------
(* SpecIndex: the table, with its rows changed through Csv::operator[]     *)

IndexAddDataRow ==
    \E row \in InputRows :
        /\ RowCount(AddDataRow(csv, row).value) <= MaxIndexedRows
        /\ AddDataRowCall(row)

IndexAddHeaderRow ==
    \E row \in InputRows :
        /\ RowCount(AddHeaderRow(csv, row).value) <= MaxIndexedRows
        /\ AddHeaderRowCall(row)

IndexAddValue ==
    \E index \in (-1)..MaxIndexedRows, field \in InputFields :
        /\ (0 <= index /\ index < RowCount(csv)) => Width(csv.rows_[index + 1]) < MaxWidth
        /\ IndexAddValueCall(index, field)

IndexClear == \E index \in (-1)..MaxIndexedRows : IndexClearCall(index)

NextIndex ==
    \/ IndexAddDataRow
    \/ IndexAddHeaderRow
    \/ IndexAddValue
    \/ IndexClear

SpecIndex == Init /\ [][NextIndex]_vars

----------------------------------------------------------------------------
(* SpecCodec: a Field's value escaped, and the escaped text sanitized      *)

FixtureValues == {FixtureRows[i][j] : i \in 1..4, j \in 1..3}

CodecValues ==
    StringsUpTo(Alphabet \cup Separators, MaxValueLen)
        \cup FixtureValues \cup {QuoteValue, QuotedQuoteValue}

\* Field field(value), and the separator it will be escaped for
InitCodec ==
    /\ csv = NewCsv(DefaultSeparator)
    /\ appended = <<>>
    /\ file = NoFile
    /\ saved = NewCsv(DefaultSeparator)
    /\ \E value \in CodecValues, separator \in Separators :
          ret = [op |-> "Field", arg |-> [value |-> value, separator |-> separator],
                 exc |-> "none", value |-> value]

CodecGetValueEscaped ==
    /\ ret.op = "Field"
    /\ \E out \in GetValueEscapedOutcomes(ret.arg.value, ret.arg.separator) :
          ret' = Call("GetValueEscaped", ret.arg, out)
    /\ UNCHANGED <<csv, appended, file, saved>>

CodecSanitizeCellValue ==
    /\ ret.op = "GetValueEscaped"
    /\ ret.exc = "none"
    /\ ret' = Call("SanitizeCellValue", ret.arg, Return(SanitizeCellValue(ret.value)))
    /\ UNCHANGED <<csv, appended, file, saved>>

NextCodec ==
    \/ CodecGetValueEscaped
    \/ CodecSanitizeCellValue

SpecCodec == InitCodec /\ [][NextCodec]_vars

----------------------------------------------------------------------------
(* SpecFile: a table built, saved and parsed                               *)

FileAddHeaderRow ==
    \E row \in FileRows(csv) \cup TestRows :
        /\ RowCount(AddHeaderRow(csv, row).value) <= MaxFileRows
        /\ AddHeaderRowCall(row)

FileAddDataRow ==
    \E row \in FileRows(csv) \cup TestRows :
        /\ RowCount(AddDataRow(csv, row).value) <= MaxFileRows
        /\ AddDataRowCall(row)

\* the constructor of CsvParserTest: the next row of the fixture
FileFixture ==
    \E k \in 0..(Len(FixtureRows) - 1) :
        /\ csv.rows_ = SubSeq(FixtureRows, 1, k)
        /\ k > 0 => csv.has_header_row_
        /\ IF k = 0 THEN AddHeaderRowCall(FixtureRows[k + 1])
           ELSE AddDataRowCall(FixtureRows[k + 1])

FileSaveToFile == \E build \in Builds : SaveToFileCall(build)

FileParse ==
    /\ file # NoFile
    /\ \E has_header_row \in BOOLEAN : ParseCall(DefaultSeparator, has_header_row)

NextFile ==
    \/ FileAddHeaderRow
    \/ FileAddDataRow
    \/ FileFixture
    \/ FileSaveToFile
    \/ FileParse

SpecFile == Init /\ [][NextFile]_vars

----------------------------------------------------------------------------
(* SpecIo: a table saved to and parsed from paths that may not open        *)

IoSaveToFile == \E build \in Builds, is_open \in BOOLEAN : SaveToFileToCall(build, is_open)

\* file = NoFile: the path names no file that can be opened
IoParse == \E has_header_row \in BOOLEAN : ParseCall(DefaultSeparator, has_header_row)

NextIo ==
    \/ IndexAddDataRow
    \/ IndexAddHeaderRow
    \/ IoSaveToFile
    \/ IoParse

SpecIo == Init /\ [][NextIo]_vars

----------------------------------------------------------------------------
(* SpecParse: a file of any bytes parsed                                   *)

FileContents == StringsUpTo(Alphabet, MaxFileLen)

InitParse ==
    /\ csv = NewCsv(DefaultSeparator)
    /\ appended = <<>>
    /\ file \in FileContents
    /\ saved = NewCsv(DefaultSeparator)
    /\ ret = NoCall

ParseFile ==
    \E separator \in Separators, has_header_row \in BOOLEAN :
        ParseCall(separator, has_header_row)

\* Parse built with another byte_buffer_size
ParseFileWith ==
    \E size \in 1..MaxBufferSize, separator \in Separators, has_header_row \in BOOLEAN :
        /\ ret' = Call("ParseWith",
                       [separator |-> separator, has_header_row |-> has_header_row,
                        size |-> size],
                       ParseWith(size, file, separator, has_header_row))
        /\ UNCHANGED <<csv, appended, file, saved>>

NextParse ==
    \/ ParseFile
    \/ ParseFileWith

SpecParse == InitParse /\ [][NextParse]_vars

----------------------------------------------------------------------------
(* SpecStep: Parse, byte by byte, and the rows of the table it returns     *)

\* Parse after pos bytes: value holds the locals, byte is the byte read
\* last; copy is the Row an accessor of the returned table has handed out,
\* as the caller has changed it
StepRet(op, pos, byte, has_header_row, index, copy, p) ==
    [op |-> op,
     arg |-> [pos |-> pos, byte |-> byte, separator |-> DefaultSeparator,
              has_header_row |-> has_header_row, index |-> index, copy |-> copy],
     exc |-> p.exc, value |-> p]

InitStep ==
    /\ csv = NewCsv(DefaultSeparator)
    /\ appended = <<>>
    /\ file \in FileContents
    /\ saved = NewCsv(DefaultSeparator)
    /\ \E has_header_row \in BOOLEAN :
          ret = StepRet("Parse", 0, "", has_header_row, 0, <<>>, ParseStart)

\* one pass of the for loop
StepParseByte ==
    /\ ret.arg.pos < Len(file)
    /\ ret.exc = "none"
    /\ LET byte == file[ret.arg.pos + 1]
       IN  ret' = StepRet("ParseByte", ret.arg.pos + 1, byte, ret.arg.has_header_row, 0, <<>>,
                          ParseByte(ret.value, byte, ret.arg.separator,
                                    ret.arg.has_header_row))
    /\ UNCHANGED <<csv, appended, file, saved>>

\* the Row an accessor returns, changed by the caller
Changed(row) == {Clear(row), AddValue(row, <<"a">>)}

\* Parse has returned; the caller takes a row of the table and changes it
StepCopyRow ==
    /\ ret.arg.pos = Len(file)
    /\ ret.exc = "none"
    /\ \E index \in 0..(RowCount(ret.value.csv) - 1) :
        \E got \in {[op |-> "RowAt", out |-> out] : out \in RowAt(ret.value.csv, index)}
                 \cup {[op |-> "DataRowAt", out |-> out] :
                            out \in IF ret.value.csv.has_header_row_
                                        /\ index = RowCount(ret.value.csv) - 1
                                     THEN {}
                                     ELSE DataRowAt(ret.value.csv, index)}
                 \cup {[op |-> "GetHeaderRow", out |-> GetHeaderRow(ret.value.csv)]} :
        \E copy \in Changed(got.out.value) :
            /\ got.out.exc = "none"
            /\ ret' = StepRet(got.op, ret.arg.pos, ret.arg.byte, ret.arg.has_header_row,
                              index, copy, ret.value)
    /\ UNCHANGED <<csv, appended, file, saved>>

NextStep ==
    \/ StepParseByte
    \/ StepCopyRow

SpecStep == InitStep /\ [][NextStep]_vars

----------------------------------------------------------------------------
(* SpecCppsv: the Csv of the revision cppsv.cpp                            *)

\* Csv::Empty of cppsv.cpp
CppsvEmpty(c) ==
    IF ~c.has_header_row_ THEN c.rows_ = <<>>
    ELSE ToSizeT(Len(c.rows_) - 1) # 0

\* Csv::AddDataRow of cppsv.cpp; MaxWidth() is allowed_width_
CppsvAddDataRow(c, row) ==
    IF IsWidthInitialized(c) /\ AllowedWidth(c) # Width(row)
    THEN Throw("InvalidRowWidthException", c)
    ELSE Return(PushRow(InitializeWidth(c, Width(row)), row))

\* Csv::AddHeaderRow of cppsv.cpp
CppsvAddHeaderRow(c, row) ==
    IF ~CppsvEmpty(c)
    THEN Throw("InvalidHeaderRowInsertionException", c)
    ELSE Return(SetHasHeaderRow(PushRow(InitializeWidth(c, Width(row)), row)))

CppsvAddDataRowCall ==
    \E row \in InputRows :
        /\ RowCount(CppsvAddDataRow(csv, row).value) <= MaxRows
        /\ Appends("AddDataRow", "data", row, CppsvAddDataRow(csv, row))

CppsvAddHeaderRowCall ==
    \E row \in InputRows :
        /\ RowCount(CppsvAddHeaderRow(csv, row).value) <= MaxRows
        /\ Appends("AddHeaderRow", "header", row, CppsvAddHeaderRow(csv, row))

NextCppsv ==
    \/ CppsvAddDataRowCall
    \/ CppsvAddHeaderRowCall

SpecCppsv == Init /\ [][NextCppsv]_vars

----------------------------------------------------------------------------
(* The table's append operations                                           *)

\* C4: once a row has been appended, an AddDataRow whose row's width differs
\* from the width of the first appended row fails with
\* InvalidRowWidthException and leaves the row count unchanged, and one with
\* the same width succeeds and adds a row.
C4_WidthInvariant ==
    [][(appended # <<>> /\ ret'.op = "AddDataRow") =>
            IF ret'.arg # Width(appended[1].row)
            THEN ret'.exc = "InvalidRowWidthException" /\ RowCount(csv') = RowCount(csv)
            ELSE ret'.exc = "none" /\ RowCount(csv') = RowCount(csv) + 1]_vars

\* a row of another width has been rejected after a first append
C4_Witness ==
    /\ ret.op = "AddDataRow"
    /\ ret.exc = "InvalidRowWidthException"
    /\ appended # <<>>
    /\ ret.arg # Width(appended[1].row)

Headers == {i \in DOMAIN appended : appended[i].kind = "header"}

\* C5: AddHeaderRow succeeds exactly when RowCount() = 0 and otherwise fails
\* with InvalidHeaderRowInsertionException; in every state at most one header
\* row has been appended, has_header_row_ implies a non-empty table, and the
\* header is the row at index 0.
C5_HeaderInvariant ==
    /\ [][ret'.op = "AddHeaderRow" =>
                IF RowCount(csv) = 0 THEN ret'.exc = "none"
                ELSE ret'.exc = "InvalidHeaderRowInsertionException"]_vars
    /\ [](/\ Cardinality(Headers) <= 1
          /\ Headers \subseteq {1}
          /\ csv.has_header_row_ <=> Headers = {1}
          /\ csv.has_header_row_ => ~Empty(csv) /\ csv.rows_[1] = appended[1].row)

\* a second header has been rejected by a table that holds a header and data
C5_Witness ==
    /\ ret.op = "AddHeaderRow"
    /\ ret.exc = "InvalidHeaderRowInsertionException"
    /\ csv.has_header_row_
    /\ RowCount(csv) >= 2

\* C6: a rejected AddDataRow or AddHeaderRow leaves the stored rows, the
\* allowed width, the width-initialized flag and the has-header flag as
\* they were before the call.
C6_NoPartialMutation ==
    [][(ret'.op \in {"AddDataRow", "AddHeaderRow"} /\ ret'.exc # "none") =>
            /\ csv'.rows_ = csv.rows_
            /\ csv'.allowed_width_ = csv.allowed_width_
            /\ csv'.is_width_initialized = csv.is_width_initialized
            /\ csv'.has_header_row_ = csv.has_header_row_]_vars

\* a header has been rejected by a table that holds data rows only
C6_Witness ==
    /\ ret.op = "AddHeaderRow"
    /\ ret.exc # "none"
    /\ ~csv.has_header_row_
    /\ RowCount(csv) >= 1

\* C7: every row stored in the table has width AllowedWidth().
C7_UniformRowWidth ==
    \A i \in DOMAIN csv.rows_ : Width(csv.rows_[i]) = AllowedWidth(csv)

----------------------------------------------------------------------------
(* The table's and the row's accessors                                     *)

\* C8: RowAt(index) fails with EmptyCsvRowAccessException on a table without
\* rows; on a table with n >= 1 rows it fails with
\* OutOfBoundRowAccessException for every index outside [0, n) and returns the
\* index-th inserted row for 0 <= index < n.
C8_RowAt ==
    ret.op = "RowAt" =>
        IF RowCount(csv) = 0 THEN ret.exc = "EmptyCsvRowAccessException"
        ELSE IF ret.arg < 0 \/ ret.arg >= RowCount(csv)
        THEN ret.exc = "OutOfBoundRowAccessException"
        ELSE ret.exc = "none" /\ ret.value = appended[ret.arg + 1].row

\* C9: Row::ValueAt(index) fails with OutOfBoundFieldAccessException for every
\* index >= Width(), on a row of width 0 too, and returns the value of the
\* field at that position for 0 <= index < Width().
C9_ValueAt ==
    (ret.op = "ValueAt" /\ ret.arg.index >= 0) =>
        IF ret.arg.index >= Width(ret.arg.row)
        THEN ret.exc = "OutOfBoundFieldAccessException"
        ELSE ret.exc = "none" /\ ret.value = ret.arg.row[ret.arg.index + 1]

DataRows == SelectSeq(appended, LAMBDA a : a.kind = "data")

\* C10: DataRowAt(i) on a table with d data rows returns the i-th data row in
\* insertion order for 0 <= i < d, with or without a header, fails with
\* OutOfBoundRowAccessException for every i >= d, and fails with
\* EmptyCsvRowAccessException on a table without rows.
C10_DataRowAt ==
    (ret.op = "DataRowAt" /\ ret.arg >= 0) =>
        IF RowCount(csv) = 0 THEN ret.exc = "EmptyCsvRowAccessException"
        ELSE IF ret.arg >= Len(DataRows) THEN ret.exc = "OutOfBoundRowAccessException"
        ELSE ret.exc = "none" /\ ret.value = DataRows[ret.arg + 1].row

----------------------------------------------------------------------------
(* Writing and reading back                                                *)

NoQuoteAtEnds(value) == ~FirstIs(value, quote_char) /\ ~LastIs(value, quote_char)

\* a table with a header row, rows of width >= 1 and no value that begins or
\* ends with a quote
PlainTable(c) ==
    /\ c.has_header_row_
    /\ \A i \in DOMAIN c.rows_ :
          /\ Width(c.rows_[i]) >= 1
          /\ \A j \in DOMAIN c.rows_[i] : NoQuoteAtEnds(c.rows_[i][j])

SameTable(c, d) ==
    /\ RowCount(c) = RowCount(d)
    /\ c.has_header_row_ = d.has_header_row_
    /\ c.rows_ = d.rows_

\* C1: for a table with a header row, rows of width >= 1 and values without a
\* quote as first or last character, SaveToFile writes the file and Parse of
\* it with the same separator and has_header_row = true yields a table with
\* the same row count, header flag and field values.
C1_RoundTrip ==
    /\ (ret.op = "SaveToFile" /\ PlainTable(saved)) => ret.exc = "none"
    /\ (/\ ret.op = "Parse"
        /\ ret.arg.has_header_row
        /\ ret.arg.separator = saved.separator_
        /\ file # NoFile
        /\ PlainTable(saved)) => ret.exc = "none" /\ SameTable(ret.value, saved)

\* C2: the table of the parser test's fixture, saved and parsed, has the same
\* number of rows and the same value in every field.
C2_FixtureRoundTrip ==
    (/\ ret.op = "Parse"
     /\ ret.arg.has_header_row
     /\ saved.rows_ = FixtureRows
     /\ saved.has_header_row_) =>
        /\ ret.exc = "none"
        /\ RowCount(ret.value) = RowCount(saved)
        /\ ret.value.rows_ = saved.rows_

\* C3: for every value x and every separator,
\* SanitizeCellValue(GetValueEscaped(separator) of x) = x.
C3_SanitizeUndoesEscape ==
    /\ ret.op = "GetValueEscaped" => ret.exc = "none"
    /\ ret.op = "SanitizeCellValue" => ret.value = ret.arg.value

----------------------------------------------------------------------------
(* The header row and the allowed width                                    *)

\* C11: GetHeaderRow fails with EmptyCsvRowAccessException on a table
\* without rows; on a table with rows it returns the row appended by
\* AddHeaderRow when there is one and otherwise a Row of width 0, without an
\* exception.
C11_GetHeaderRow ==
    ret.op = "GetHeaderRow" =>
        IF RowCount(csv) = 0 THEN ret.exc = "EmptyCsvRowAccessException"
        ELSE IF Headers # {}
        THEN ret.exc = "none" /\ \E i \in Headers : ret.value = appended[i].row
        ELSE ret.exc = "none" /\ Width(ret.value) = 0

\* GetHeaderRow has returned the empty Row for a table that holds data rows
\* of width >= 1 only
C11_Witness ==
    /\ ret.op = "GetHeaderRow"
    /\ ret.exc = "none"
    /\ ret.value = <<>>
    /\ ~csv.has_header_row_
    /\ RowCount(csv) >= 1
    /\ AllowedWidth(csv) >= 1

\* C20: before any row exists AllowedWidth() is 0 and the width is unset;
\* from the first successful append on, header or data, the width is set and
\* AllowedWidth() is the width of that row; no append, accepted or rejected,
\* changes AllowedWidth() afterwards or unsets the width.
C20_WidthLifecycle ==
    /\ [](appended = <<>> => AllowedWidth(csv) = 0 /\ ~IsWidthInitialized(csv))
    /\ [](appended # <<>> =>
            IsWidthInitialized(csv) /\ AllowedWidth(csv) = Width(appended[1].row))
    /\ [][IsWidthInitialized(csv) =>
            IsWidthInitialized(csv') /\ AllowedWidth(csv') = AllowedWidth(csv)]_vars

\* the width set by a header has outlived an accepted and a rejected append
C20_Witness ==
    /\ Headers = {1}
    /\ Len(appended) >= 2
    /\ ret.op = "AddDataRow"
    /\ ret.exc = "InvalidRowWidthException"
    /\ AllowedWidth(csv) = Width(appended[1].row)
    /\ AllowedWidth(csv) >= 1

----------------------------------------------------------------------------
(* Field::GetValueEscaped                                                  *)

HasSeparatorOrLF(value, separator) == Contains(value, separator) \/ Contains(value, LF)

\* C12: for a value that contains the separator or a line feed,
\* GetValueEscaped returns a string that begins and ends with a quote, and
\* has wrapped the value in quotes unless the value both begins and ends
\* with a quote already.
C12_QuotingOnWrite ==
    (ret.op = "GetValueEscaped" /\ HasSeparatorOrLF(ret.arg.value, ret.arg.separator)) =>
        /\ ret.exc = "none"
        /\ FirstIs(ret.value, quote_char)
        /\ LastIs(ret.value, quote_char)
        /\ ~(FirstIs(ret.arg.value, quote_char) /\ LastIs(ret.arg.value, quote_char)) =>
                Len(ret.value) >= Len(ret.arg.value) + 2

\* s with every quote that is neither its first nor its last character
\* written twice, from position i on
RECURSIVE DoubledFrom(_, _)
DoubledFrom(s, i) ==
    IF i > Len(s) THEN <<>>
    ELSE (IF s[i] = quote_char /\ i # 1 /\ i # Len(s)
          THEN <<quote_char, quote_char>> ELSE <<s[i]>>) \o DoubledFrom(s, i + 1)

\* C13: GetValueEscaped returns the (possibly wrapped) string with every
\* quote that is not its first or last character doubled and every other
\* character kept, in order.
C13_QuoteDoubling ==
    ret.op = "GetValueEscaped" =>
        /\ ret.exc = "none"
        /\ ret.value = DoubledFrom(Wrapped(ret.arg.value, ret.arg.separator), 1)

----------------------------------------------------------------------------
(* Csv::SaveToFile                                                         *)

\* the fields of row as build escapes them, one separator between two fields
RECURSIVE JoinFields(_, _, _)
JoinFields(build, row, separator) ==
    IF row = <<>> THEN <<>>
    ELSE GetValueEscapedOn(build, row[1], separator).value
            \o (IF Len(row) > 1 THEN <<separator>> ELSE <<>>)
            \o JoinFields(build, Tail(row), separator)

\* the lines of rows, a line feed after each
RECURSIVE JoinRows(_, _, _)
JoinRows(build, rows, separator) ==
    IF rows = <<>> THEN <<>>
    ELSE JoinFields(build, rows[1], separator) \o <<LF>>
            \o JoinRows(build, Tail(rows), separator)

\* C14: SaveToFile writes, for each stored row in insertion order, the
\* escaped form of each field in order with one separator between two
\* fields and none after the last, and one line feed after every row; an
\* empty table gives an empty file.
C14_WriterFormat ==
    ret.op = "SaveToFile" =>
        /\ ret.exc = "none"
        /\ \E build \in Builds : file = JoinRows(build, saved.rows_, saved.separator_)
        /\ Empty(saved) => file = <<>>

\* C19: SaveToFile to a destination that cannot be opened ends with an
\* exception; it does not return normally.
C19_SaveToFileIoError ==
    (ret.op = "SaveToFile" /\ ret.arg = FALSE) => ret.exc # "none"

----------------------------------------------------------------------------
(* CsvParser::Parse                                                        *)

\* C18: Parse of a file that cannot be opened ends with an exception; it
\* does not return a table.
C18_ParseIoError ==
    (ret.op = "Parse" /\ file = NoFile) => ret.exc # "none"

\* the pieces of s between the occurrences of c; cur is the piece begun
RECURSIVE Split(_, _, _)
Split(s, c, cur) ==
    IF s = <<>> THEN <<cur>>
    ELSE IF s[1] = c THEN <<cur>> \o Split(Tail(s), c, <<>>)
    ELSE Split(Tail(s), c, Append(cur, s[1]))

\* the lines of content that end with a line feed
CompleteLines(content) ==
    LET pieces == Split(content, LF, <<>>) IN SubSeq(pieces, 1, Len(pieces) - 1)

\* the text after the last line feed
TrailingText(content) ==
    LET pieces == Split(content, LF, <<>>) IN pieces[Len(pieces)]

\* the lines of content, the last one without a line feed included
AllLines(content) ==
    CompleteLines(content) \o
        (IF TrailingText(content) = <<>> THEN <<>> ELSE <<TrailingText(content)>>)

LineFields(line, separator) == Split(line, separator, <<>>)

QuoteFree(content) == ~Contains(content, quote_char)

\* C15: Parse with has_header_row = true commits the first finished row as
\* the header and the later ones as data rows: the result has a header, its
\* header row is the first line and DataRowAt(0) the second line; with
\* has_header_row = false the result has no header and DataRowAt(0) is the
\* first line. The rows are the same for both values of has_header_row.
C15_ParserHeader ==
    (ret.op = "Parse" /\ ret.exc = "none") =>
        LET lines == CompleteLines(file)
            fields(i) == LineFields(lines[i], ret.arg.separator)
            other == Parse(file, ret.arg.separator, ~ret.arg.has_header_row)
        IN  /\ ret.value.has_header_row_ <=> (ret.arg.has_header_row /\ ~Empty(ret.value))
            /\ ret.value.rows_ = other.value.rows_
            /\ (QuoteFree(file) /\ Len(lines) >= 1) =>
                    IF ret.arg.has_header_row
                    THEN /\ GetHeaderRow(ret.value) = Return(fields(1))
                         /\ Len(lines) >= 2 => DataRowAt(ret.value, 0) = {Return(fields(2))}
                    ELSE /\ GetHeaderRow(ret.value) = Return(<<>>)
                         /\ DataRowAt(ret.value, 0) = {Return(fields(1))}

\* a file of two different lines has been parsed with has_header_row = true
C15_Witness ==
    /\ ret.op = "Parse"
    /\ ret.exc = "none"
    /\ ret.arg.has_header_row
    /\ QuoteFree(file)
    /\ RowCount(ret.value) >= 2
    /\ ret.value.has_header_row_
    /\ ret.value.rows_[1] # ret.value.rows_[2]

\* C16: when the file ends with text that no line feed follows, Parse commits
\* the pending field and row as the last row: the result is that of the same
\* file with a final line feed.
C16_EndOfInputFlush ==
    (/\ ret.op = "Parse"
     /\ QuoteFree(file)
     /\ TrailingText(file) # <<>>
     /\ ~LastIs(file, ret.arg.separator)) =>
        LET flushed == Parse(file \o <<LF>>, ret.arg.separator, ret.arg.has_header_row)
        IN  /\ ret.exc = flushed.exc
            /\ ret.value.rows_ = flushed.value.rows_

\* C17: for a file in which a later line has another number of fields than
\* the first line, Parse ends with InvalidRowWidthException; Parse never
\* returns a table with rows of different widths.
C17_ParserWidth ==
    ret.op = "Parse" =>
        /\ ret.exc = "none" =>
                \A i, j \in DOMAIN ret.value.rows_ :
                    Width(ret.value.rows_[i]) = Width(ret.value.rows_[j])
        /\ (/\ QuoteFree(file)
            /\ \E i \in 2..Len(AllLines(file)) :
                    Len(LineFields(AllLines(file)[i], ret.arg.separator))
                        # Len(LineFields(AllLines(file)[1], ret.arg.separator))) =>
                ret.exc = "InvalidRowWidthException"

----------------------------------------------------------------------------
(* The order of the rows                                                   *)

AppendedRows == [i \in DOMAIN appended |-> appended[i].row]

\* C21: the stored rows are the rows of the successful appends, in call
\* order, equal rows as separate entries; RowCount() is the number of
\* successful appends, and no append changes an earlier row or its position.
C21_InsertionOrder ==
    /\ [](csv.rows_ = AppendedRows /\ RowCount(csv) = Len(appended))
    /\ [][ret'.op \in {"AddDataRow", "AddHeaderRow"} =>
            /\ RowCount(csv') >= RowCount(csv)
            /\ SubSeq(csv'.rows_, 1, RowCount(csv)) = csv.rows_
            /\ ret'.exc = "none" => RowCount(csv') = RowCount(csv) + 1]_vars

\* the table holds three rows of which two are equal and not adjacent
C21_Witness ==
    /\ RowCount(csv) = 3
    /\ csv.rows_[1] = csv.rows_[3]
    /\ csv.rows_[1] # csv.rows_[2]
    /\ ret.op = "AddDataRow"
    /\ ret.exc = "none"

\* C22: ForEachRow calls the callback once per stored row in insertion
\* order, the header included; ForEachDataRow does so for the rows after the
\* header when there is one, RowCount() - 1 calls, and for all rows
\* otherwise; neither changes the table.
C22_ForEach ==
    /\ [](ret.op = "ForEachRow" =>
            ret.exc = "none" /\ ret.value = AppendedRows /\ Len(ret.value) = RowCount(csv))
    /\ [](ret.op = "ForEachDataRow" =>
            /\ ret.exc = "none"
            /\ ret.value = [i \in DOMAIN DataRows |-> DataRows[i].row]
            /\ Len(ret.value) = IF csv.has_header_row_ THEN RowCount(csv) - 1
                                 ELSE RowCount(csv))
    /\ [][ret'.op \in {"ForEachRow", "ForEachDataRow"} => csv' = csv]_vars

\* ForEachDataRow has skipped the header of a table with data rows
C22_Witness ==
    /\ ret.op = "ForEachDataRow"
    /\ csv.has_header_row_
    /\ RowCount(csv) >= 2
    /\ Len(ret.value) = RowCount(csv) - 1
    /\ ret.value[1] = csv.rows_[2]

----------------------------------------------------------------------------
(* The revision cppsv.cpp                                                  *)

\* C23: in cppsv.cpp AddHeaderRow throws InvalidHeaderRowInsertionException
\* whenever the Csv holds at least one row, Empty() is true exactly when the
\* Csv holds no row, and a second header row is never appended.
C23_CppsvAddHeaderRow ==
    /\ [][(ret'.op = "AddHeaderRow" /\ RowCount(csv) >= 1) =>
            ret'.exc = "InvalidHeaderRowInsertionException" /\ csv' = csv]_vars
    /\ [](CppsvEmpty(csv) <=> RowCount(csv) = 0)
    /\ [](Cardinality(Headers) <= 1)

----------------------------------------------------------------------------
(* Parse, byte by byte                                                     *)

\* a pass of the for loop is taken: from the locals ret.value to ret'.value
StepTaken == ret'.op = "ParseByte"

\* the field and row the parser has when an unquoted delimiter is read
FieldEnded == SanitizeCellValue(ret.value.field_value)

RowEnded == AddValue(ret.value.row, FieldEnded)

\* C24: a separator or line feed read while is_quoted is appended to the
\* field buffer and ends nothing; read while not is_quoted, a separator ends
\* one field (sanitized, appended to the row, buffer cleared) and a line feed
\* ends one field and commits one row, leaving field buffer and row empty.
C24_ParserDelimiters ==
    [][(StepTaken /\ ret'.arg.byte \in {ret.arg.separator, LF}) =>
            IF ret.value.is_quoted
            THEN ret'.value = [ret.value EXCEPT !.field_value = Append(@, ret'.arg.byte)]
            ELSE IF ret'.arg.byte = ret.arg.separator
            THEN ret'.value = [ret.value EXCEPT !.row = RowEnded, !.field_value = <<>>]
            ELSE ret'.exc = "none" =>
                    /\ ret'.value.csv.rows_ = Append(ret.value.csv.rows_, RowEnded)
                    /\ ret'.value.field_value = <<>>
                    /\ ret'.value.row = <<>>
                    /\ ~ret'.value.is_quoted]_vars

\* a row has been committed that holds a field with a separator in it
C24_Witness ==
    /\ ret.op = "ParseByte"
    /\ ret.arg.byte = LF
    /\ ret.exc = "none"
    /\ ret.value.row = <<>>
    /\ RowCount(ret.value.csv) >= 1
    /\ \E j \in DOMAIN ret.value.csv.rows_[1] :
            Contains(ret.value.csv.rows_[1][j], ret.arg.separator)

\* C25: a quote byte is always appended to the field buffer, and toggles
\* is_quoted exactly when the buffer was empty or began with a quote; so while
\* the buffer begins with another character is_quoted is false and the next
\* separator or line feed ends the field.
C25_ParserQuoteRule ==
    /\ [][(StepTaken /\ ret'.arg.byte = quote_char) =>
            /\ ret'.value.field_value = Append(ret.value.field_value, quote_char)
            /\ ret'.value.is_quoted # ret.value.is_quoted
                    <=> (ret.value.field_value = <<>>
                            \/ FirstIs(ret.value.field_value, quote_char))
            /\ ret'.value.row = ret.value.row
            /\ ret'.value.csv = ret.value.csv]_vars
    /\ []((ret.value.field_value # <<>> /\ ~FirstIs(ret.value.field_value, quote_char))
            => ~ret.value.is_quoted)
    /\ [][(/\ StepTaken
            /\ ret.value.field_value # <<>>
            /\ ~FirstIs(ret.value.field_value, quote_char)
            /\ ret'.arg.byte \in {ret.arg.separator, LF}) =>
                ret'.value.field_value = <<>> \/ ret'.exc # "none"]_vars

\* a quote has been read into a field that begins with another character
C25_Witness ==
    /\ ret.op = "ParseByte"
    /\ ret.arg.byte = quote_char
    /\ Len(ret.value.field_value) >= 2
    /\ ~FirstIs(ret.value.field_value, quote_char)
    /\ ~ret.value.is_quoted

\* s with every pair of consecutive quotes, taken from the left, made one
RECURSIVE HalvePairs(_)
HalvePairs(s) ==
    IF s = <<>> THEN <<>>
    ELSE IF Len(s) >= 2 /\ s[1] = quote_char /\ s[2] = quote_char
    THEN <<quote_char>> \o HalvePairs(SubSeq(s, 3, Len(s)))
    ELSE <<s[1]>> \o HalvePairs(Tail(s))

\* raw without its outermost pair of quotes, then its quote pairs halved
Sanitized(raw) ==
    HalvePairs(IF Len(raw) >= 2 /\ raw[1] = quote_char /\ raw[Len(raw)] = quote_char
               THEN SubSeq(raw, 2, Len(raw) - 1)
               ELSE raw)

\* C26: the field buffer holds the raw bytes until the field ends; at the
\* field's end the value appended to the row is the raw field without its
\* outermost pair of quotes, if it begins and ends with a quote, and with
\* each pair of quotes, from the left, replaced by one quote.
C26_Sanitization ==
    /\ [][StepTaken =>
            IF ret'.arg.byte \in {ret.arg.separator, LF} /\ ~ret.value.is_quoted
            THEN /\ ret'.arg.byte = ret.arg.separator =>
                        ret'.value.row = Append(ret.value.row, Sanitized(ret.value.field_value))
                 /\ (ret'.arg.byte = LF /\ ret'.exc = "none") =>
                        ret'.value.csv.rows_ =
                            Append(ret.value.csv.rows_,
                                   Append(ret.value.row, Sanitized(ret.value.field_value)))
            ELSE /\ ret'.value.field_value = Append(ret.value.field_value, ret'.arg.byte)
                 /\ ret'.value.row = ret.value.row
                 /\ ret'.value.csv = ret.value.csv]_vars
    /\ [](/\ SanitizeCellValue(<<quote_char, quote_char, quote_char, quote_char>>)
                = <<quote_char>>
          /\ SanitizeCellValue(<<quote_char, quote_char>>) = <<>>)

\* the raw field of four quotes has ended and given the field of one quote
C26_Witness ==
    /\ ret.op = "ParseByte"
    /\ ret.arg.pos = 5
    /\ SubSeq(file, 1, 4) = <<quote_char, quote_char, quote_char, quote_char>>
    /\ ret.arg.byte = ret.arg.separator
    /\ ret.value.row = << <<quote_char>> >>

\* C27: the table stores copies: the row committed by Parse stays in the
\* table as it was committed when Parse clears and refills its Row, and a
\* change of a Row returned by RowAt, DataRowAt or GetHeaderRow leaves the
\* table unchanged.
C27_RowsByValue ==
    /\ [][(/\ StepTaken
            /\ ret'.arg.byte = LF
            /\ ~ret.value.is_quoted
            /\ ret'.exc = "none") =>
                /\ ret'.value.row = <<>>
                /\ ret'.value.csv.rows_[RowCount(ret'.value.csv)] = RowEnded
                /\ Width(ret'.value.csv.rows_[RowCount(ret'.value.csv)]) >= 1]_vars
    /\ [][StepTaken =>
            SubSeq(ret'.value.csv.rows_, 1, RowCount(ret.value.csv)) = ret.value.csv.rows_]_vars
    /\ [][ret'.op \in {"RowAt", "DataRowAt", "GetHeaderRow"} =>
            ret'.value.csv = ret.value.csv]_vars

\* the caller has cleared the copy of a stored row that has fields
C27_Witness ==
    /\ ret.op = "RowAt"
    /\ ret.arg.copy = <<>>
    /\ RowCount(ret.value.csv) >= 2
    /\ Width(ret.value.csv.rows_[ret.arg.index + 1]) >= 1
    /\ ret.value.csv.rows_[ret.arg.index + 1][1] # <<>>

QuoteCount(s) == Cardinality({i \in DOMAIN s : s[i] = quote_char})

\* C28: in every state of Parse is_quoted implies a non-empty field buffer
\* that begins with a quote; whenever a field or a row is committed is_quoted
\* is false, and the raw field, if it begins with a quote, holds an even
\* number of quotes.
C28_ParserState ==
    /\ [](ret.value.is_quoted =>
            ret.value.field_value # <<>> /\ FirstIs(ret.value.field_value, quote_char))
    /\ [][(/\ StepTaken
            /\ ret'.arg.byte \in {ret.arg.separator, LF}
            /\ ret'.value.field_value # Append(ret.value.field_value, ret'.arg.byte)) =>
                /\ ~ret.value.is_quoted
                /\ ~ret'.value.is_quoted
                /\ FirstIs(ret.value.field_value, quote_char) =>
                        QuoteCount(ret.value.field_value) % 2 = 0]_vars

\* Parse is inside a quoted field that holds a line feed
C28_Witness ==
    /\ ret.op = "ParseByte"
    /\ ret.value.is_quoted
    /\ Len(ret.value.field_value) >= 3
    /\ Contains(ret.value.field_value, LF)

\* the bytes Parse has not read yet
Unread == SubSeq(file, ret.arg.pos + 1, Len(file))

\* C30: when Parse is inside a field that began with a quote and no quote
\* follows in the input, every later separator and line feed is appended to
\* the field, no further row is committed, and Parse returns without an
\* exception the table of the rows committed so far.
C30_UnbalancedQuote ==
    /\ []((ret.value.is_quoted /\ ret.exc = "none" /\ ~Contains(Unread, quote_char)) =>
            Parse(file, ret.arg.separator, ret.arg.has_header_row)
                = [exc |-> "none", value |-> ret.value.csv])
    /\ [][(StepTaken /\ ret.value.is_quoted /\ ret'.arg.byte # quote_char) =>
            ret'.value = [ret.value EXCEPT !.field_value = Append(@, ret'.arg.byte)]]_vars

\* the input has ended inside a quoted field that holds a line feed and a
\* separator, after a row was committed
C30_Witness ==
    /\ ret.op = "ParseByte"
    /\ ret.arg.pos = Len(file)
    /\ ret.value.is_quoted
    /\ Contains(ret.value.field_value, LF)
    /\ Contains(ret.value.field_value, ret.arg.separator)
    /\ RowCount(ret.value.csv) >= 1

\* C29: Parse with a byte buffer of any size >= 1 returns the table that
\* Parse returns reading the input as one chunk.
C29_ChunkIndependence ==
    ret.op = "ParseWith" =>
        [exc |-> ret.exc, value |-> ret.value]
            = Parse(file, ret.arg.separator, ret.arg.has_header_row)

\* a file read one byte at a time has given a field of one quote, written as
\* four quotes, in a committed row
C29_Witness ==
    /\ ret.op = "ParseWith"
    /\ ret.arg.size = 1
    /\ ret.exc = "none"
    /\ RowCount(ret.value) >= 1
    /\ ret.value.rows_[1] = << <<quote_char>> >>

----------------------------------------------------------------------------
(* The width-initialized flag                                              *)

\* C31: the width-initialized flag is true exactly when the table holds a
\* row, whatever AllowedWidth() is: after a first row of width 0
\* AllowedWidth() stays 0, every AddDataRow with a row of width > 0 fails
\* with InvalidRowWidthException and leaves the table unchanged, and every
\* AddDataRow with a row of width 0 is accepted.
C31_WidthInitializedFlag ==
    /\ [](IsWidthInitialized(csv) <=> ~Empty(csv))
    /\ [][(/\ ret'.op = "AddDataRow"
            /\ appended # <<>>
            /\ Width(appended[1].row) = 0) =>
                /\ AllowedWidth(csv) = 0
                /\ AllowedWidth(csv') = 0
                /\ IF ret'.arg > 0
                   THEN ret'.exc = "InvalidRowWidthException" /\ csv' = csv
                   ELSE ret'.exc = "none" /\ RowCount(csv') = RowCount(csv) + 1]_vars

\* a table of two rows of width 0 has rejected a row with fields
C31_Witness ==
    /\ ret.op = "AddDataRow"
    /\ ret.exc = "InvalidRowWidthException"
    /\ ret.arg > 0
    /\ RowCount(csv) >= 2
    /\ \A i \in DOMAIN csv.rows_ : Width(csv.rows_[i]) = 0
    /\ AllowedWidth(csv) = 0
    /\ IsWidthInitialized(csv)

====
